---- MODULE Spec2Model ----
(***************************************************************************)
(* Model of pre_market_bias_app.py: a Streamlit script whose `if run_btn:` *)
(* body resolves two credentials, fetches price statistics for five        *)
(* symbols through a 5-minute cache, fetches headlines, composes a text    *)
(* context, asks the LLM for a summary and renders the result.             *)
(*                                                                         *)
(* Python values are tagged records: [t |-> "float", c |-> n] is the float *)
(* n/100 (every float the script keeps is rounded to 2 decimals),          *)
(* [t |-> "int", c |-> n] the int n, [t |-> "nan"] the float NaN,          *)
(* [t |-> "none"] is None and [t |-> "str", s |-> x] the str x.  Prices    *)
(* that come from the market-data provider are integers in thousandths.    *)
(* Texts are tuples of string pieces; a multi-line text is a tuple of      *)
(* lines.  Non-ASCII characters of the source's literals are written in    *)
(* ASCII ("*" for the bullet, "-" for the dash, "!" for the warning sign). *)
(***************************************************************************)
EXTENDS Integers, Sequences, FiniteSets, TLC

VARIABLES
    pc,              \* "Idle", or the next step of the `if run_btn:` body
    secrets,         \* st.secrets: key name -> value, or Missing
    environ,         \* os.environ: variable name -> value, or Missing
    openai_key_in,   \* sidebar text input, as read by the last run
    news_key_in,     \* sidebar text input, as read by the last run
    news_key,        \* local of the run
    openai_api_key,  \* openai.api_key, a module global that outlives the run
    clock,           \* wall clock, seconds
    cache,           \* st.cache_data store of get_price_stats, per ticker
    stats,           \* results of get_price_stats so far: es, nq, vix, dxy, tnx
    queried,         \* tickers for which this run queried the market-data provider
    news_response,   \* the news provider's response in this run, or NoResponse
    headlines,       \* local of the run
    context,         \* local of the run: the tuple of context lines
    bias_text,       \* local of the run
    llm_requests,    \* completion requests this run sent to the LLM provider
    llm_response,    \* the LLM provider's answer in this run, or NoResponse
    prior_api_key,   \* openai.api_key as the previous run left it
    last_fetch,      \* per ticker: when the provider was last queried, and the result
    rendered,        \* what the page shows: NothingRendered or [bias, context]
    fault            \* TRUE when the last run ended in an uncaught exception

vars == <<pc, secrets, environ, openai_key_in, news_key_in, news_key,
          openai_api_key, clock, cache, stats, queried, news_response,
          headlines, context, bias_text, llm_requests, llm_response,
          prior_api_key, last_fetch, rendered, fault>>

-----------------------------------------------------------------------------
(* Bounds of the model *)

MaxBars == 2          \* bars in one intraday response of the price provider
MaxArticles == 6      \* articles in one response of the news provider
MaxTicks == 3         \* clock ticks in one behaviour
TicksPerTtl == 2      \* clock ticks that make up one cache time-to-live

-----------------------------------------------------------------------------
(* Program constants *)

ttl == 300                       \* @st.cache_data(ttl=300)
DefaultMaxHeadlines == 5         \* fetch_news(..., max_headlines: int = 5)
OvernightStart == 1080           \* "18:00", in minutes of the day
OvernightEnd == 570              \* "09:30", in minutes of the day

Symbols == <<"ES=F", "NQ=F", "^VIX", "DX-Y.NYB", "^TNX">>
SymbolSet == {Symbols[i] : i \in 1..Len(Symbols)}
KeyNames == {"OPENAI_API_KEY", "NEWSAPI_KEY"}

-----------------------------------------------------------------------------
(* Python values *)

PyNone == [t |-> "none"]
NaN == [t |-> "nan"]
PyFloat(c) == [t |-> "float", c |-> c]
PyInt(n) == [t |-> "int", c |-> n]
PyStr(x) == [t |-> "str", s |-> x]
EmptyDict == [k \in {} |-> PyNone]

IsNumeric(v) == v.t \in {"float", "int"}

\* dict.get(key, default)
Get(d, k, default) == IF k \in DOMAIN d THEN d[k] ELSE default

\* n / d rounded to the nearest integer, ties to the even one (d > 0)
RoundHalfEvenDiv(n, d) ==
    LET q == n \div d
        r == n - q * d
    IN  IF 2 * r < d THEN q
        ELSE IF 2 * r > d THEN q + 1
        ELSE IF q % 2 = 0 THEN q ELSE q + 1

\* round(x, 2) of a float given in thousandths, or of NaN
Round2(x) == IF x = NaN THEN NaN ELSE PyFloat(RoundHalfEvenDiv(x.m, 10))

\* a provider price, in thousandths
Mills(m) == [t |-> "mills", m |-> m]

RECURSIVE SeqMax(_), SeqMin(_)
SeqMax(s) ==
    IF Len(s) = 1 THEN s[1]
    ELSE LET m == SeqMax(Tail(s)) IN IF s[1] >= m THEN s[1] ELSE m
SeqMin(s) ==
    IF Len(s) = 1 THEN s[1]
    ELSE LET m == SeqMin(Tail(s)) IN IF s[1] <= m THEN s[1] ELSE m

\* str(v) inside an f-string
Digit(n) == ToString(n)
FmtFloat(c) ==
    LET a == IF c < 0 THEN -c ELSE c
        frac == a % 100
    IN  (IF c < 0 THEN "-" ELSE "") \o ToString(a \div 100) \o "." \o
        (IF frac % 10 = 0 THEN Digit(frac \div 10)
         ELSE Digit(frac \div 10) \o Digit(frac % 10))
Fmt(v) ==
    CASE v.t = "none" -> "None"
      [] v.t = "nan" -> "nan"
      [] v.t = "str" -> v.s
      [] v.t = "int" -> ToString(v.c)
      [] v.t = "float" -> FmtFloat(v.c)

-----------------------------------------------------------------------------
(* get_price_stats *)

\* DataFrame.between_time("18:00", "09:30"): the window wraps midnight and
\* includes both ends
between_time(bar) == bar.time >= OvernightStart \/ bar.time <= OvernightEnd

Column(bars, name) == [i \in 1..Len(bars) |-> bars[i][name]]

\* Series.max() / Series.min(): NaN on an empty series
series_max(s) == IF s = <<>> THEN NaN ELSE Mills(SeqMax(s))
series_min(s) == IF s = <<>> THEN NaN ELSE Mills(SeqMin(s))

pct_change(last, prev_close) ==
    IF prev_close # 0
    THEN PyFloat(RoundHalfEvenDiv((last - prev_close) * 10000, prev_close))
    ELSE PyInt(0)

\* The body of get_price_stats, given the provider's answers to the 5-minute
\* and to the daily download
get_price_stats(intraday, daily) ==
    IF intraday = <<>> THEN EmptyDict
    ELSE LET overnight == SelectSeq(intraday, between_time)
             high == series_max(Column(overnight, "High"))
             low == series_min(Column(overnight, "Low"))
             last == intraday[Len(intraday)].Close
             prev_close == IF daily # <<>> THEN daily[Len(daily)].Close ELSE last
         IN  [high |-> Round2(high),
              low |-> Round2(low),
              last |-> Round2(Mills(last)),
              prev_close |-> Round2(Mills(prev_close)),
              pct_change |-> pct_change(last, prev_close)]

\* st.cache_data(ttl=300): an entry answers calls until ttl seconds after it was stored
NoEntry == [present |-> FALSE]
\* a cache that does not keep empty results
cache_fresh_skip_empty(entry, now) ==
    entry.present /\ entry.value # EmptyDict /\ now < entry.expires
cache_fresh(entry, now) == entry.present /\ now < entry.expires
cache_store(value, now) == [present |-> TRUE, value |-> value, expires |-> now + ttl]

-----------------------------------------------------------------------------
(* fetch_news *)

Return(v) == [raised |-> FALSE, value |-> v]
Raise(e) == [raised |-> TRUE, value |-> e]

NoResponse == [kind |-> "none"]
NetworkError == [kind |-> "network_error"]
HttpResponse(status, body) == [kind |-> "http", status |-> status, body |-> body]
NotJson == [json |-> FALSE]
Json(obj) == [json |-> TRUE, obj |-> obj]

\* f"{a['title']} - {a['source']['name']}"
headline_of(a) == <<a.title, " - ", a.source.name>>
article_ok(a) ==
    "title" \in DOMAIN a /\ "source" \in DOMAIN a /\ "name" \in DOMAIN a.source

\* the body of the try block
fetch_news_try(response) ==
    IF response.kind = "network_error" THEN Raise("ConnectionError")   \* requests.get
    ELSE IF response.status >= 400 /\ response.status < 600
         THEN Raise("HTTPError")                                       \* raise_for_status
    ELSE IF ~response.body.json THEN Raise("JSONDecodeError")          \* r.json()
    ELSE LET articles == Get(response.body.obj, "articles", <<>>)
         IN  IF \E i \in 1..Len(articles) : ~article_ok(articles[i])
             THEN Raise("KeyError")
             ELSE Return([i \in 1..Len(articles) |-> headline_of(articles[i])])

\* the try block without its except clause
fetch_news_uncaught(api_key, response, max_headlines) == fetch_news_try(response)
\* except requests.RequestException in place of except Exception
fetch_news_narrow_except(api_key, response, max_headlines) ==
    LET r == fetch_news_try(response)
    IN  IF r.raised /\ r.value \in {"ConnectionError", "HTTPError"} THEN Return(<<>>) ELSE r
\* try: ... except Exception: return []
fetch_news(api_key, response, max_headlines) ==
    LET r == fetch_news_try(response)
    IN  IF r.raised THEN Return(<<>>) ELSE r

-----------------------------------------------------------------------------
(* summarize_with_openai *)

MissingKeyText == <<"! **OPENAI_API_KEY** is missing.">>
ErrorPrefix == "Error from OpenAI: "

Falsy(v) == v = PyNone \/ v = PyStr("")

IsSpace(p) == p = " "
RECURSIVE lstrip(_), rstrip(_)
lstrip(s) == IF s # <<>> /\ IsSpace(Head(s)) THEN lstrip(Tail(s)) ELSE s
rstrip(s) ==
    IF s # <<>> /\ IsSpace(s[Len(s)]) THEN rstrip(SubSeq(s, 1, Len(s) - 1)) ELSE s
strip(s) == rstrip(lstrip(s))

\* message.content: a str (its pieces), or None
Text(pieces) == [t |-> "text", pieces |-> pieces]
LlmOk(content) == [ok |-> TRUE, content |-> content]
LlmError(e) == [ok |-> FALSE, error |-> e]

\* the summarizer without its key check
summarize_no_key_check(ctx, api_key, outcome) ==
    IF ~outcome.ok THEN [text |-> <<ErrorPrefix, outcome.error>>, requests |-> 1]
    ELSE IF outcome.content = PyNone
         THEN [text |-> <<ErrorPrefix, "'NoneType' object has no attribute 'strip'">>,
               requests |-> 1]
    ELSE [text |-> strip(outcome.content.pieces), requests |-> 1]
\* the summarizer asking a second time after an error
summarize_with_retry(ctx, api_key, outcome) ==
    IF Falsy(api_key) THEN [text |-> MissingKeyText, requests |-> 0]
    ELSE IF ~outcome.ok
         THEN [text |-> <<ErrorPrefix, outcome.error>>, requests |-> 2]
    ELSE IF outcome.content = PyNone
         THEN [text |-> <<ErrorPrefix, "'NoneType' object has no attribute 'strip'">>,
               requests |-> 1]
    ELSE [text |-> strip(outcome.content.pieces), requests |-> 1]

\* [text, requests]: the returned text and the completion requests sent;
\* `outcome` is what the provider answers if it is asked
summarize_with_openai(ctx, api_key, outcome) ==
    IF Falsy(api_key) THEN [text |-> MissingKeyText, requests |-> 0]
    ELSE IF ~outcome.ok
         THEN [text |-> <<ErrorPrefix, outcome.error>>, requests |-> 1]
    ELSE IF outcome.content = PyNone
         THEN [text |-> <<ErrorPrefix, "'NoneType' object has no attribute 'strip'">>,
               requests |-> 1]
    ELSE [text |-> strip(outcome.content.pieces), requests |-> 1]

-----------------------------------------------------------------------------
(* key resolution *)

Missing == "<missing>"

\* st.secrets.get(name, default)
secrets_get(name, default) == IF secrets[name] = Missing THEN default ELSE secrets[name]
\* os.getenv(name, default)
os_getenv(name, default) == IF environ[name] = Missing THEN default ELSE environ[name]

\* the chain without its last link
resolve_key_no_env(key_in, name) ==
    IF key_in # "" THEN key_in ELSE secrets_get(name, "")
\* key_in or st.secrets.get(NAME, os.getenv(NAME, ""))
resolve_key(key_in, name) ==
    IF key_in # "" THEN key_in ELSE secrets_get(name, os_getenv(name, ""))

\* if openai_key: openai.api_key = openai_key
set_api_key_if_given(old, key) == IF key = "" THEN old ELSE PyStr(key)
\* openai.api_key = openai_key
set_api_key(old, key) == PyStr(key)

-----------------------------------------------------------------------------
(* context_lines *)

futures_line(label, d) ==
    <<"  * " \o label \o " high ", Fmt(Get(d, "high", PyNone)),
      " / low ", Fmt(Get(d, "low", PyNone)),
      " / last ", Fmt(Get(d, "last", PyNone)),
      " (", Fmt(Get(d, "pct_change", PyNone)), "%)">>

macro_line(label, d, pct_default) ==
    <<"  * " \o label \o " ", Fmt(Get(d, "last", PyNone)),
      " (", Fmt(Get(d, "pct_change", pct_default)), "%)">>

context_lines(now, st, hl) ==
    << <<"Date: ", ToString(now)>>,
       <<"">>,
       <<"Overnight Futures:">>,
       futures_line("ES", st[1]),
       futures_line("NQ", st[2]),
       <<"">>,
       <<"Macro:">>,
       macro_line("VIX", st[3], PyNone),
       macro_line("DXY", st[4], PyStr("0")),
       macro_line("10-yr yield", st[5], PyStr("0")),
       <<"">>,
       <<"Top Headlines:">> >>
    \o [i \in 1..Len(hl) |-> <<"  * ">> \o hl[i]]
    \o << <<"">>,
          <<"Give a concise pre-market bias (bullish / bearish / neutral) for ES and NQ and key price levels to watch.">> >>

-----------------------------------------------------------------------------
(* The environments the program runs in *)

Bar(time, high, low, close) == [time |-> time, High |-> high, Low |-> low, Close |-> close]
DailyBar(close) == [Close |-> close]

OvernightBar == Bar(540, 4510125, 4480000, 4505000)    \* 09:00
DayBar == Bar(600, 4520000, 4500500, 4515250)          \* 10:00

RECURSIVE SeqsUpTo(_, _)
SeqsUpTo(S, n) ==
    IF n = 0 THEN {<<>>}
    ELSE LET shorter == SeqsUpTo(S, n - 1)
         IN  shorter \cup {Append(s, x) : s \in {t \in shorter : Len(t) = n - 1}, x \in S}

AllIntradays == SeqsUpTo({OvernightBar, DayBar}, MaxBars)
AllDailies == {<<>>, <<DailyBar(0)>>, <<DailyBar(4490000)>>}
FewIntradays == {<<>>, <<OvernightBar>>}
FewDailies == {<<DailyBar(4490000)>>}

Article(i) == [title |-> "T" \o ToString(i), source |-> [name |-> "S" \o ToString(i)]]
BadArticles ==
    { [source |-> [name |-> "S"]],                   \* no title
      [title |-> "T"],                               \* no source
      [title |-> "T", source |-> [id |-> "x"]] }     \* source without a name
GoodList(n) == [i \in 1..n |-> Article(i)]
AllNewsResponses ==
    {NetworkError, HttpResponse(401, NotJson), HttpResponse(500, Json([status |-> "error"])),
     HttpResponse(304, NotJson),
     HttpResponse(200, NotJson), HttpResponse(200, Json([status |-> "ok"]))}
    \cup {HttpResponse(200, Json([articles |-> GoodList(n)])) : n \in 0..MaxArticles}
    \cup {HttpResponse(200, Json([articles |-> [GoodList(2) EXCEPT ![i] = b]])) :
            i \in 1..2, b \in BadArticles}
FewNewsResponses == {NetworkError, HttpResponse(200, Json([articles |-> GoodList(1)]))}

AllLlmOutcomes ==
    {LlmOk(Text(<<" ", "Bullish bias", " ">>)), LlmOk(PyNone), LlmError("timeout")}
FewLlmOutcomes == {LlmOk(Text(<<"Bullish bias">>))}

AllStores == [KeyNames -> {Missing, "", "sk-stored"}]
AllEnvirons == [KeyNames -> {Missing, "sk-env"}]
NoStore == [k \in KeyNames |-> Missing]
AllInputs == {"", "sk-input"}

-----------------------------------------------------------------------------
(* State machine *)

NothingRendered == [shown |-> FALSE]
NeverFetched == [done |-> FALSE]

InitIn(Stores, Environs) ==
    /\ pc = "Idle"
    /\ secrets \in Stores
    /\ environ \in Environs
    /\ openai_key_in = ""
    /\ news_key_in = ""
    /\ news_key = ""
    /\ openai_api_key = PyNone
    /\ clock = 0
    /\ cache = [s \in SymbolSet |-> NoEntry]
    /\ stats = <<>>
    /\ queried = {}
    /\ news_response = NoResponse
    /\ headlines = <<>>
    /\ context = <<>>
    /\ bias_text = <<>>
    /\ llm_requests = 0
    /\ llm_response = NoResponse
    /\ prior_api_key = PyNone
    /\ last_fetch = [s \in SymbolSet |-> NeverFetched]
    /\ rendered = NothingRendered
    /\ fault = FALSE

\* run_btn pressed: the script reads the two inputs, resolves the keys and
\* sets openai.api_key
Trigger(OpenaiInputs, NewsInputs) ==
    /\ pc = "Idle"
    /\ \E oin \in OpenaiInputs, nin \in NewsInputs :
        /\ openai_key_in' = oin
        /\ news_key_in' = nin
        /\ openai_api_key' = set_api_key(openai_api_key, resolve_key(oin, "OPENAI_API_KEY"))
        /\ news_key' = resolve_key(nin, "NEWSAPI_KEY")
    /\ pc' = "fetch"
    /\ stats' = <<>>
    /\ queried' = {}
    /\ news_response' = NoResponse
    /\ headlines' = <<>>
    /\ context' = <<>>
    /\ bias_text' = <<>>
    /\ llm_requests' = 0
    /\ llm_response' = NoResponse
    /\ prior_api_key' = openai_api_key
    /\ rendered' = NothingRendered
    /\ fault' = FALSE
    /\ UNCHANGED <<secrets, environ, clock, cache, last_fetch>>

\* one cached call get_price_stats(Symbols[Len(stats) + 1])
FetchPrice(Intradays, Dailies) ==
    /\ pc = "fetch"
    /\ LET s == Symbols[Len(stats) + 1]
       IN  \/ /\ cache_fresh(cache[s], clock)
              /\ stats' = Append(stats, cache[s].value)
              /\ UNCHANGED <<cache, queried, last_fetch>>
           \/ /\ ~cache_fresh(cache[s], clock)
              /\ \E intraday \in Intradays, daily \in Dailies :
                    LET result == get_price_stats(intraday, daily)
                    IN  /\ stats' = Append(stats, result)
                        /\ cache' = [cache EXCEPT ![s] = cache_store(result, clock)]
                        /\ last_fetch' = [last_fetch EXCEPT ![s] =
                                [done |-> TRUE, at |-> clock, result |-> result]]
              /\ queried' = queried \cup {s}
    /\ pc' = IF Len(stats) + 1 = Len(Symbols) THEN "news" ELSE "fetch"
    /\ UNCHANGED <<secrets, environ, openai_key_in, news_key_in, news_key,
                   openai_api_key, clock, news_response, headlines, context,
                   bias_text, llm_requests, llm_response, prior_api_key,
                   rendered, fault>>

\* headlines = fetch_news(news_key) if news_key else []
FetchNews(Responses) ==
    /\ pc = "news"
    /\ IF news_key = ""
       THEN /\ headlines' = <<>>
            /\ pc' = "compose"
            /\ UNCHANGED <<news_response, fault>>
       ELSE \E response \in Responses :
              LET r == fetch_news(news_key, response, DefaultMaxHeadlines)
              IN  /\ news_response' = response
                  /\ IF r.raised
                     THEN /\ fault' = TRUE
                          /\ pc' = "Idle"
                          /\ UNCHANGED headlines
                     ELSE /\ headlines' = r.value
                          /\ pc' = "compose"
                          /\ UNCHANGED fault
    /\ UNCHANGED <<secrets, environ, openai_key_in, news_key_in, news_key,
                   openai_api_key, clock, cache, stats, queried, context,
                   bias_text, llm_requests, llm_response, prior_api_key,
                   last_fetch, rendered>>

\* context = "\n".join(context_lines)
Compose ==
    /\ pc = "compose"
    /\ context' = context_lines(clock, stats, headlines)
    /\ pc' = "summarize"
    /\ UNCHANGED <<secrets, environ, openai_key_in, news_key_in, news_key,
                   openai_api_key, clock, cache, stats, queried, news_response,
                   headlines, bias_text, llm_requests, llm_response,
                   prior_api_key, last_fetch, rendered, fault>>

\* bias_text = summarize_with_openai(context)
Summarize(Outcomes) ==
    /\ pc = "summarize"
    /\ \E outcome \in Outcomes :
          LET r == summarize_with_openai(context, openai_api_key, outcome)
          IN  /\ bias_text' = r.text
              /\ llm_requests' = llm_requests + r.requests
              /\ llm_response' = IF r.requests = 0 THEN NoResponse ELSE outcome
    /\ pc' = "render"
    /\ UNCHANGED <<secrets, environ, openai_key_in, news_key_in, news_key,
                   openai_api_key, clock, cache, stats, queried, news_response,
                   headlines, context, prior_api_key, last_fetch, rendered, fault>>

\* st.write(bias_text); st.code(context); the run ends
Render ==
    /\ pc = "render"
    /\ rendered' = [shown |-> TRUE, bias |-> bias_text, context |-> context]
    /\ pc' = "Idle"
    /\ UNCHANGED <<secrets, environ, openai_key_in, news_key_in, news_key,
                   openai_api_key, clock, cache, stats, queried, news_response,
                   headlines, context, bias_text, llm_requests, llm_response,
                   prior_api_key, last_fetch, fault>>

\* wall-clock time passes
Tick ==
    /\ clock < MaxTicks * (ttl \div TicksPerTtl)
    /\ clock' = clock + ttl \div TicksPerTtl
    /\ UNCHANGED <<pc, secrets, environ, openai_key_in, news_key_in, news_key,
                   openai_api_key, cache, stats, queried, news_response,
                   headlines, context, bias_text, llm_requests, llm_response,
                   prior_api_key, last_fetch, rendered, fault>>

-----------------------------------------------------------------------------
(* Specifications: the same program in four bounded environments *)

\* every outcome of every external call; no stored configuration, a frozen clock
Init == InitIn({NoStore}, {NoStore})
RunStep ==
    \/ FetchPrice(FewIntradays, FewDailies)
    \/ FetchNews(AllNewsResponses)
    \/ Compose
    \/ Summarize(AllLlmOutcomes)
    \/ Render
Next == Trigger(AllInputs, AllInputs) \/ RunStep
Spec == Init /\ [][Next]_vars /\ WF_vars(RunStep)

\* every configuration of the three credential sources
InitKeys == InitIn(AllStores, AllEnvirons)
NextKeys ==
    \/ Trigger(AllInputs, AllInputs)
    \/ FetchPrice({<<>>}, FewDailies)
    \/ FetchNews(FewNewsResponses)
    \/ Compose
    \/ Summarize(AllLlmOutcomes)
    \/ Render
SpecKeys == InitKeys /\ [][NextKeys]_vars

\* a running clock
NextCache ==
    \/ Trigger({"sk-input"}, {""})
    \/ FetchPrice(FewIntradays, FewDailies)
    \/ FetchNews(FewNewsResponses)
    \/ Compose
    \/ Summarize(FewLlmOutcomes)
    \/ Render
    \/ Tick
SpecCache == Init /\ [][NextCache]_vars

\* every answer of the market-data provider
NextPrice ==
    \/ Trigger({"sk-input"}, {""})
    \/ FetchPrice(AllIntradays, AllDailies)
    \/ FetchNews(FewNewsResponses)
    \/ Compose
    \/ Summarize(FewLlmOutcomes)
    \/ Render
SpecPrice == Init /\ [][NextPrice]_vars

-----------------------------------------------------------------------------
(* Properties *)

InRun == pc # "Idle"
AfterNews == pc \in {"compose", "summarize", "render"}

\* C1: every triggered run ends in the render step: no exception escapes
\* (fault stays FALSE), a run that has started always comes back to Idle with
\* the narrative and the raw context on the page, and what is on the page is
\* what the run computed.
C1_RunRenders ==
    /\ [](~fault)
    /\ [](rendered.shown =>
            /\ pc = "Idle"
            /\ rendered.bias = bias_text
            /\ rendered.context = context
            /\ context # <<>>)
    /\ (InRun ~> (pc = "Idle" /\ rendered.shown))
\* a rendered run in which a price fetch found no data, the news request
\* failed and the LLM provider answered with an error
C1_Witness ==
    /\ pc = "Idle"
    /\ rendered.shown
    /\ stats[1] = EmptyDict
    /\ news_response = NetworkError
    /\ llm_response = LlmError("timeout")
    /\ rendered.bias = <<ErrorPrefix, "timeout">>

\* C2: a run whose LLM credential is absent or empty ends with the missing-key
\* text as its narrative and has sent no completion request.
C2_MissingKeyNoRequest ==
    (pc = "render" /\ openai_api_key \in {PyNone, PyStr("")}) =>
        /\ bias_text = MissingKeyText
        /\ llm_requests = 0
        /\ llm_response = NoResponse
\* a run with the empty credential that has composed its context
C2_Witness ==
    /\ pc = "render"
    /\ openai_api_key = PyStr("")
    /\ bias_text = MissingKeyText
    /\ context # <<>>

FiveMinutes == 5 * 60
\* C3: while less than five minutes have passed since get_price_stats last
\* ran for a ticker (the call that queried the provider and stored its
\* result), a call for that ticker returns that stored result, the empty one
\* included, and does not query the provider; a call queries the provider for
\* a ticker queried before only once those five minutes are over.
C3_CachedWithinTtl ==
    [][(pc = "fetch" /\ Len(stats') = Len(stats) + 1) =>
          LET s == Symbols[Len(stats')]
              f == last_fetch[s]
          IN  /\ (f.done /\ clock < f.at + FiveMinutes) =>
                    /\ stats'[Len(stats')] = f.result
                    /\ s \notin queried'
                    /\ last_fetch'[s] = f
              /\ (f.done /\ s \in queried') => clock >= f.at + FiveMinutes]_vars
\* an empty result answered from the cache some time after it was fetched,
\* and a ticker queried again after its entry expired
C3_Witness ==
    /\ pc = "news"
    /\ stats[1] = EmptyDict
    /\ "ES=F" \notin queried
    /\ last_fetch["ES=F"].done
    /\ clock > last_fetch["ES=F"].at
    /\ "^TNX" \in queried
    /\ last_fetch["^TNX"].at > 0

Chain(key_in, name) ==
    << [available |-> key_in # "", value |-> key_in],
       [available |-> secrets[name] # Missing, value |-> secrets[name]],
       [available |-> environ[name] # Missing, value |-> environ[name]] >>
FirstAvailable(key_in, name) ==
    LET chain == Chain(key_in, name)
        avail == {i \in 1..Len(chain) : chain[i].available}
    IN  IF avail = {} THEN ""
        ELSE chain[CHOOSE i \in avail : \A j \in avail : i <= j].value
\* C4: each credential of a run is the first available source of the chain
\* sidebar input, stored secret, environment variable, and "" when none is
\* available.  The sidebar input is available when it is not empty, a stored
\* secret when st.secrets holds the key, an environment variable when it is set.
C4_Precedence ==
    InRun =>
        /\ openai_api_key = PyStr(FirstAvailable(openai_key_in, "OPENAI_API_KEY"))
        /\ news_key = FirstAvailable(news_key_in, "NEWSAPI_KEY")
\* the environment variable is used: empty input, no stored secret
C4_Witness ==
    /\ InRun
    /\ openai_key_in = ""
    /\ secrets["OPENAI_API_KEY"] = Missing
    /\ environ["OPENAI_API_KEY"] = "sk-env"
    /\ openai_api_key = PyStr("sk-env")
    /\ news_key_in = "sk-input"
    /\ secrets["NEWSAPI_KEY"] = "sk-stored"
    /\ news_key = "sk-input"

ArticlesOf(response) == Get(response.body.obj, "articles", <<>>)
NewsFailed(response) ==
    \/ response.kind = "network_error"
    \/ /\ response.kind = "http"
       /\ \/ response.status \notin 200..299
          \/ ~response.body.json
          \/ "articles" \notin DOMAIN response.body.obj
          \/ \E i \in 1..Len(ArticlesOf(response)) :
                LET a == ArticlesOf(response)[i]
                IN  \/ "title" \notin DOMAIN a
                    \/ "source" \notin DOMAIN a
                    \/ "name" \notin DOMAIN a.source
PriceFields == {"high", "low", "last", "prev_close", "pct_change"}
\* C6: every result of get_price_stats is either empty or has its five
\* fields, each of them a number.
C6_AllOrNothing ==
    \A i \in 1..Len(stats) :
        \/ stats[i] = EmptyDict
        \/ /\ DOMAIN stats[i] = PriceFields
           /\ \A f \in PriceFields : IsNumeric(stats[i][f])

MissingMarker == "None"
SymbolLine == <<4, 5, 8, 9, 10>>
Slots(line) == {k \in 1..Len(line) : k % 2 = 0}
Skeleton(line) == [k \in 1..((Len(line) + 1) \div 2) |-> line[2 * k - 1]]
FullStats == get_price_stats(<<OvernightBar>>, <<DailyBar(4490000)>>)
FullContext == context_lines(0, [i \in 1..Len(Symbols) |-> FullStats], <<>>)
\* C7: in the composed context the line of a symbol without price statistics
\* shows the missing-value marker in each of its value slots, and the labelled
\* lines are those of a context with all data present.
C7_MissingMarker ==
    (pc \in {"summarize", "render"}) =>
        \A i \in 1..Len(Symbols) :
            LET line == context[SymbolLine[i]]
            IN  /\ Skeleton(line) = Skeleton(FullContext[SymbolLine[i]])
                /\ stats[i] = EmptyDict => \A k \in Slots(line) : line[k] = MissingMarker

NewsSucceeded(response) == response.kind = "http" /\ ~NewsFailed(response)
Truncated(seq, n) == SubSeq(seq, 1, IF Len(seq) < n THEN Len(seq) ELSE n)
\* C8: after a successful news request the headlines are the provider's
\* articles as title and source, in the provider's order, cut to at most
\* max_headlines entries.
C8_Truncated ==
    (AfterNews /\ NewsSucceeded(news_response)) =>
        /\ Len(headlines) <= DefaultMaxHeadlines
        /\ headlines =
             Truncated([i \in 1..Len(ArticlesOf(news_response)) |->
                          <<ArticlesOf(news_response)[i].title, " - ",
                            ArticlesOf(news_response)[i].source.name>>],
                       DefaultMaxHeadlines)

\* C9: a run with a non-empty LLM credential sends exactly one completion
\* request; when the provider answers with an error the narrative is the
\* error text with that error in it, and still only one request was sent.
C9_OneRequest ==
    (pc = "render" /\ openai_api_key \notin {PyNone, PyStr("")}) =>
        /\ llm_requests = 1
        /\ llm_response # NoResponse
        /\ ~llm_response.ok => bias_text = <<ErrorPrefix, llm_response.error>>
\* a run with a key whose single request the provider answered with an error
C9_Witness ==
    /\ pc = "render"
    /\ openai_api_key = PyStr("sk-input")
    /\ llm_response = LlmError("timeout")
    /\ llm_requests = 1
    /\ bias_text = <<ErrorPrefix, "timeout">>

\* C10: in every run openai.api_key holds the credential resolved in that
\* run, whatever an earlier run left there; a run that resolves the empty
\* credential ends with the missing-key text and no request.
C10_GlobalOverwritten ==
    /\ InRun => openai_api_key = PyStr(FirstAvailable(openai_key_in, "OPENAI_API_KEY"))
    /\ (pc = "render" /\ FirstAvailable(openai_key_in, "OPENAI_API_KEY") = "") =>
            /\ bias_text = MissingKeyText
            /\ llm_requests = 0
\* the earlier run had set a valid key, this one resolves the empty one
C10_Witness ==
    /\ pc = "render"
    /\ prior_api_key = PyStr("sk-input")
    /\ openai_key_in = ""
    /\ openai_api_key = PyStr("")
    /\ bias_text = MissingKeyText
    /\ llm_requests = 0

====
